---------------------------- MODULE Spec2Model ----------------------------
(***************************************************************************)
(* Model of the plotters repository: iostat_plotter.py (argument parsing,  *)
(* load_data, filter_data, the three plot_* functions) and the exit paths  *)
(* of fio_log_plotter.py.                                                  *)
(*                                                                         *)
(* Representation.  A Python str is a sequence of atoms (an atom is one    *)
(* character, or a run of characters no operation of the program ever      *)
(* splits), so concatenation is \o and a prefix test is a comparison of    *)
(* sub-sequences.  A text line is the sequence of its whitespace separated *)
(* tokens (what line.split() returns).  Python's None is the empty         *)
(* sequence: for a str argument the program only ever tests truthiness     *)
(* ("if start_time", "if dev"), under which None and "" agree; for the     *)
(* optional datetime, <<>> is None and <<t>> is the datetime t, counted in *)
(* seconds after 2024-11-14 10:32:00.                                      *)
(***************************************************************************)
EXTENDS Integers, Sequences, FiniteSets, TLC

VARIABLES
    script,        \* which program runs: "iostat" or "fio"
    argv,          \* the command line, as getopt sees it
    files,         \* paths that exist on disk when the program starts
    lines,         \* the non-blank lines of the iostat log
    pc,            \* position in the program
    exitcode,      \* process exit status, -1 while running
    i,             \* load_data: index of the next line of the loop
    seq,           \* load_data: seq
    column_names,  \* load_data: column_names (<<>> is None)
    timestamp,     \* load_data: timestamp (<<>> is None)
    omit_factor,   \* load_data: omit_factor
    data_list,     \* load_data: data_list
    src,           \* history: src[k] is the index in lines of data_list[k]
    df,            \* the data frame returned by load_data, then by filter_data
    fs,            \* image files written so far (saved by plt.savefig)
    runs,          \* number of program runs started over the same log
    fio_k          \* fio main: index of the next entry of log_files

vars == <<script, argv, files, lines, pc, exitcode, i, seq, column_names,
          timestamp, omit_factor, data_list, src, df, fs, runs, fio_k>>

loadvars == <<i, seq, column_names, timestamp, omit_factor, data_list, src>>

-----------------------------------------------------------------------------
(* Bounds of the model *)

\* longest log, in lines, of a run of the whole program
MaxLines == 5
\* longest log after its header line, in lines, of a run that exercises filter_data
MaxFilterLines == 3
\* most sampling blocks of a log of a run that filters by device alone
MaxBlocks == 3
\* longest log after its header line, in lines, of the repeated runs
MaxRunLines == 2
\* number of runs of the program over the same log
MaxRuns == 2

-----------------------------------------------------------------------------
(* Strings *)

None == <<>>

Digits == {"0", "1", "2", "3", "4", "5", "6", "7", "8", "9"}

DigitVal(c) ==
    CASE c = "0" -> 0 [] c = "1" -> 1 [] c = "2" -> 2 [] c = "3" -> 3
      [] c = "4" -> 4 [] c = "5" -> 5 [] c = "6" -> 6 [] c = "7" -> 7
      [] c = "8" -> 8 [] c = "9" -> 9

\* s begins with p (str.startswith; re.match of a pattern without metacharacters)
StartsWith(s, p) ==
    /\ Len(p) <= Len(s)
    /\ SubSeq(s, 1, Len(p)) = p

\* the tokens of the log lines
Device == <<"Dev", "ice">>
r_await == <<"r_await">>
w_await == <<"w_await">>
rareq_sz == <<"rareq-sz">>
wareq_sz == <<"wareq-sz">>
aqu_sz == <<"aqu-sz">>
nvme0n1 == <<"nvme0n1">>
sda == <<"s", "d", "a">>
Val == <<"1">>

\* "Thu Nov 14 10:32:2d CST 2024"
DateLine(d) ==
    << <<"Thu">>, <<"Nov">>, <<"14">>, <<"10:32:", "2", d>>, <<"CST">>, <<"2024">> >>

HeaderWide == <<Device, r_await, w_await, rareq_sz, wareq_sz, aqu_sz>>
HeaderNarrow == <<Device, aqu_sz>>
DataWide(dev) == <<dev, Val, Val, Val, Val, Val>>
DataNarrow(dev) == <<dev, Val>>

\* "2024-11-14 10:32:2d", a bound in the form the usage text names
TimeString(d) == <<"2024-11-14", " ", "10:32:", "2", d>>

-----------------------------------------------------------------------------
(* load_data *)

Word3 == {<<"Thu">>, <<"Nov">>, <<"CST">>}

IsClock(tok) ==
    /\ Len(tok) = 3
    /\ tok[1] = "10:32:"
    /\ tok[2] \in Digits
    /\ tok[3] \in Digits

\* re.search(reg_date_line, line)
IsDateLine(line) ==
    /\ Len(line) = 6
    /\ line[1] \in Word3
    /\ line[2] \in Word3
    /\ line[3] = <<"14">>
    /\ IsClock(line[4])
    /\ line[5] \in Word3
    /\ line[6] = <<"2024">>

\* datetime.strptime(timestr, "%a %b %d %H:%M:%S %Z %Y")
ParseDateLine(line) == 10 * DigitVal(line[4][2]) + DigitVal(line[4][3])

\* line.startswith("Dev")
IsHeaderLine(line) ==
    /\ Len(line) > 0
    /\ StartsWith(line[1], <<"Dev">>)

\* one row of data_list: [seq, timestamp] + data
Row(s, t, data) == [seq |-> s, time |-> t, data |-> data]


\* mutant: the guard of line 65 is missing, every header replaces the names
ColumnNamesOfLastHeader(names, line) == line

\* line 66 under line 65: the first header fixes the column names
NextColumnNames(names, line) == IF names = None THEN line ELSE names

\* mutant: line 67 indented under the "if" of line 65, seq counts the first header only
HeaderSeqFirstOnly(s) == IF s = 0 THEN 1 ELSE s

\* line 67: every header line starts a new sampling interval
HeaderSeq(s) == s + 1

\* mutant: only the first date line sets the timestamp
FirstTimestamp(t, line) == IF t = None THEN <<ParseDateLine(line)>> ELSE t

\* line 60: the timestamp of a date line replaces the current one
NextTimestamp(t, line) == <<ParseDateLine(line)>>

\* mutant: the omit test is off by one (omit_factor < 1)
SkipDataOffByOne(data, names, omit_first, factor) ==
    \/ names = None
    \/ Len(data) # Len(names)
    \/ (omit_first /\ factor < 1)

\* line 71: the condition under which a data line is skipped
SkipData(data, names, omit_first, factor) ==
    \/ names = None
    \/ Len(data) # Len(names)
    \/ (omit_first /\ factor <= 1)

-----------------------------------------------------------------------------
(* iostat_plotter.py: __main__ *)

LogPath == <<"iostat.log">>

Exit(code) ==
    /\ pc' = "exit"
    /\ exitcode' = code

\* lines 231-258; then main() calls load_data, whose lines 49-53 set the loop up
ParseArgs ==
    /\ script = "iostat"
    /\ pc = "main"
    /\ IF argv.unknown
         THEN Exit(2)                       \* getopt.GetoptError: sys.exit(2)
         ELSE IF argv.help
           THEN Exit(0)                     \* usage(); sys.exit()
           ELSE IF argv.args = <<>>
             THEN Exit(1)                   \* log_file is unbound: NameError
             ELSE IF argv.args[Len(argv.args)] \notin files
               THEN Exit(2)                 \* File does not exist: sys.exit(2)
               ELSE pc' = "load" /\ exitcode' = exitcode
    /\ i' = 1
    /\ seq' = 0
    /\ column_names' = None
    /\ timestamp' = None
    /\ omit_factor' = 0
    /\ data_list' = <<>>
    /\ src' = <<>>
    /\ UNCHANGED <<script, argv, files, lines, df, fs, runs, fio_k>>

\* lines 54-74: one iteration of the loop over lines
LoadLine ==
    /\ pc = "load"
    /\ i <= Len(lines)
    /\ LET line == lines[i] IN
         IF IsDateLine(line)
           THEN /\ timestamp' = NextTimestamp(timestamp, line)
                /\ omit_factor' = 0
                /\ UNCHANGED <<seq, column_names, data_list, src>>
           ELSE IF IsHeaderLine(line)
             THEN /\ omit_factor' = omit_factor + 1
                  /\ column_names' = NextColumnNames(column_names, line)
                  /\ seq' = HeaderSeq(seq)
                  /\ UNCHANGED <<timestamp, data_list, src>>
             ELSE IF column_names # None
                       /\ ~SkipData(line, column_names, argv.omit_first, omit_factor)
               THEN /\ data_list' = Append(data_list, Row(seq, timestamp, line))
                    /\ src' = Append(src, i)
                    /\ UNCHANGED <<seq, column_names, timestamp, omit_factor>>
               ELSE UNCHANGED <<seq, column_names, timestamp, omit_factor,
                                data_list, src>>
    /\ i' = i + 1
    /\ UNCHANGED <<script, argv, files, lines, pc, exitcode, df, fs, runs, fio_k>>

\* line 78 and the return: with no header line, ['seq', 'time'] + None raises TypeError
LoadDone ==
    /\ pc = "load"
    /\ i > Len(lines)
    /\ IF column_names = None
         THEN Exit(1) /\ df' = df
         ELSE /\ df' = data_list
              /\ pc' = "filter"
              /\ exitcode' = exitcode
    /\ UNCHANGED <<script, argv, files, lines, fs, runs, fio_k>>
    /\ UNCHANGED loadvars

-----------------------------------------------------------------------------
(* filter_data *)

\* the strings datetime.strptime(s, "%Y-%m-%d %H:%M:%S") accepts
IsTimeString(s) ==
    /\ Len(s) = 5
    /\ s[1] = "2024-11-14"
    /\ s[2] = " "
    /\ s[3] = "10:32:"
    /\ s[4] \in Digits
    /\ s[5] \in Digits

ParseTime(s) == 10 * DigitVal(s[4]) + DigitVal(s[5])

\* the strings int(s) accepts: an optional sign and decimal digits
IsIntString(s) ==
    /\ Len(s) >= 1
    /\ LET body == IF s[1] = "-" THEN Tail(s) ELSE s IN
         /\ Len(body) >= 1
         /\ \A k \in 1..Len(body) : body[k] \in Digits

RECURSIVE DigitsToInt(_)
DigitsToInt(s) ==
    IF s = <<>> THEN 0
    ELSE 10 * DigitsToInt(SubSeq(s, 1, Len(s) - 1)) + DigitVal(s[Len(s)])

StrToInt(s) == IF s[1] = "-" THEN 0 - DigitsToInt(Tail(s)) ELSE DigitsToInt(s)

\* lines 85-92: a bound becomes a datetime, else an int, else stays None;
\* a string that is neither raises ValueError out of filter_data
BoundRaises(s) == s # None /\ ~IsTimeString(s) /\ ~IsIntString(s)

ParseBound(s) ==
    IF s = None THEN [kind |-> "none", val |-> 0]
    ELSE IF IsTimeString(s) THEN [kind |-> "time", val |-> ParseTime(s)]
    ELSE [kind |-> "int", val |-> StrToInt(s)]

\* lines 93-96; a comparison of the time column with a datetime is False on a
\* null entry, and the int 0 is falsy like None
StartKeeps(r, b) ==
    IF b.kind = "time" THEN r.time # None /\ r.time[1] >= b.val
    ELSE IF b.kind = "int" /\ b.val # 0 THEN r.seq >= b.val
    ELSE TRUE

\* mutant: the "if end_time else df" of line 100 is missing
EndKeepsNoGuard(r, b) ==
    IF b.kind = "time" THEN r.time # None /\ r.time[1] <= b.val
    ELSE r.seq <= b.val

\* lines 97-100
EndKeeps(r, b) ==
    IF b.kind = "time" THEN r.time # None /\ r.time[1] <= b.val
    ELSE IF b.kind = "int" /\ b.val # 0 THEN r.seq <= b.val
    ELSE TRUE

\* position of a column among the column names, 0 when there is no such column
ColIndex(names, col) ==
    IF \E k \in 1..Len(names) : names[k] = col
      THEN CHOOSE k \in 1..Len(names) :
             names[k] = col /\ \A j \in 1..(k - 1) : names[j] # col
      ELSE 0

\* df['Device'] of one row
DeviceOf(r, names) == r.data[ColIndex(names, Device)]

\* mutant: Series.str.contains(dev), the pattern may match anywhere in the name
DevContains(name, pat) ==
    \E k \in 1..(Len(name) + 1) :
        /\ k + Len(pat) - 1 <= Len(name)
        /\ SubSeq(name, k, k + Len(pat) - 1) = pat

\* Series.str.match(dev): re.match anchors the pattern at the start of the name
DevMatch(name, pat) == StartsWith(name, pat)

\* line 101-102
DevKeeps(r, dev, names) ==
    IF dev # None THEN DevMatch(DeviceOf(r, names), dev) ELSE TRUE

\* lines 83-103, for arguments that do not raise
FilterData(d, start_time, end_time, dev, names) ==
    LET s == ParseBound(start_time)
        e == ParseBound(end_time)
        Keep(r) == StartKeeps(r, s) /\ EndKeeps(r, e) /\ DevKeeps(r, dev, names)
    IN  SelectSeq(d, Keep)

\* ValueError from int(), KeyError from df['Device']
FilterRaises(start_time, end_time, dev, names) ==
    \/ BoundRaises(start_time)
    \/ BoundRaises(end_time)
    \/ (dev # None /\ ColIndex(names, Device) = 0)

\* main, line 224
Filter ==
    /\ pc = "filter"
    /\ IF FilterRaises(argv.start_time, argv.end_time, argv.dev, column_names)
         THEN Exit(1) /\ df' = df
         ELSE /\ df' = FilterData(df, argv.start_time, argv.end_time, argv.dev,
                                  column_names)
              /\ pc' = "plot_awaits"
              /\ exitcode' = exitcode
    /\ UNCHANGED <<script, argv, files, lines, fs, runs, fio_k>>
    /\ UNCHANGED loadvars

-----------------------------------------------------------------------------
(* plot_awaits, plot_reqsz, plot_aqusz *)

\* the columns each chart reads (lines 126, 162, 198)
PlotColumns(kind) ==
    CASE kind = "awaits" -> {r_await, w_await}
      [] kind = "reqsz" -> {rareq_sz, wareq_sz}
      [] kind = "aqusz" -> {aqu_sz}

\* df['Device'].unique(): the devices in order of first appearance
RECURSIVE Unique(_, _)
Unique(d, names) ==
    IF d = <<>> THEN <<>>
    ELSE LET front == Unique(SubSeq(d, 1, Len(d) - 1), names)
             last == DeviceOf(d[Len(d)], names)
         IN  IF \E k \in 1..Len(front) : front[k] = last
               THEN front
               ELSE Append(front, last)

\* the value the name dev holds after the loop "for dev in df['Device'].unique()"
\* (lines 124, 160, 196), which rebinds the parameter dev
LoopDev(d, names) == LET u == Unique(d, names) IN u[Len(u)]

\* lines 142-144, 178-180, 214-216
FileName(kind, dev, start_time, end_time) ==
    <<"iostat_", kind, "_">> \o dev
      \o (IF start_time # None THEN <<"_s">> \o start_time ELSE <<>>)
      \o (IF end_time # None THEN <<"_e">> \o end_time \o <<".png">> ELSE <<".png">>)

\* a chart raises KeyError when the frame lacks Device or one of its columns
PlotRaises(kind, names) ==
    \/ ColIndex(names, Device) = 0
    \/ \E c \in PlotColumns(kind) : ColIndex(names, c) = 0

\* a saved image: its name, and the filter settings of the run that saved it
Saved(kind, d, names, a) ==
    [name |-> FileName(kind, LoopDev(d, names), a.start_time, a.end_time),
     kind |-> kind,
     by |-> [dev |-> a.dev, start_time |-> a.start_time, end_time |-> a.end_time]]

Plot(kind, from, to) ==
    /\ pc = from
    /\ IF df = <<>>
         THEN /\ pc' = to                   \* "No data to plot."
              /\ exitcode' = IF to = "exit" THEN 0 ELSE exitcode
              /\ fs' = fs
         ELSE IF PlotRaises(kind, column_names)
           THEN Exit(1) /\ fs' = fs
           ELSE /\ fs' = fs \cup {Saved(kind, df, column_names, argv)}
                /\ pc' = to
                /\ exitcode' = IF to = "exit" THEN 0 ELSE exitcode
    /\ UNCHANGED <<script, argv, files, lines, df, runs, fio_k>>
    /\ UNCHANGED loadvars

\* main, line 225
PlotAwaits == Plot("awaits", "plot_awaits", "plot_reqsz")
\* main, line 226
PlotReqsz == Plot("reqsz", "plot_reqsz", "plot_aqusz")
\* main, line 227; main returns and the interpreter exits with status 0
PlotAqusz == Plot("aqusz", "plot_aqusz", "exit")

-----------------------------------------------------------------------------
(* fio_log_plotter.py *)

FioPrefix == <<"job">>

LogTypes == <<"bw", "iops", "lat", "slat", "clat">>

\* '{}_bw.log'.format(prefix), ... (lines 51-55)
FioLogPath(prefix, log_type) == prefix \o <<"_", log_type, ".log">>

DigitChar(n) ==
    CASE n = 0 -> "0" [] n = 1 -> "1" [] n = 2 -> "2" [] n = 3 -> "3"
      [] n = 4 -> "4" [] n = 5 -> "5" [] n = 6 -> "6" [] n = 7 -> "7"
      [] n = 8 -> "8" [] n = 9 -> "9"

RECURSIVE NatToStr(_)
NatToStr(n) ==
    IF n < 10 THEN <<DigitChar(n)>>
    ELSE NatToStr(n \div 10) \o <<DigitChar(n % 10)>>

\* how an f-string renders start_time and end_time, each an int or None
FioBoundText(s) ==
    IF s = None THEN <<"None">>
    ELSE LET n == StrToInt(s) IN
           IF n < 0 THEN <<"-">> \o NatToStr(0 - n) ELSE NatToStr(n)

\* lines 65-70; int 0 is falsy like None
FioFileName(prefix, start_time, end_time, log_type) ==
    IF (start_time # None /\ StrToInt(start_time) # 0)
         \/ (end_time # None /\ StrToInt(end_time) # 0)
      THEN prefix \o <<"_s">> \o FioBoundText(start_time)
             \o <<"_e">> \o FioBoundText(end_time) \o <<"_", log_type, ".png">>
      ELSE prefix \o <<"_", log_type, ".png">>

\* lines 79-97, for the command line "-s <start_time> -e <end_time> [-h] [prefix]"
FioParseArgs ==
    /\ script = "fio"
    /\ pc = "main"
    /\ IF argv.unknown
         THEN Exit(2)                       \* getopt.GetoptError: sys.exit(2)
         ELSE IF argv.start_time # None /\ ~IsIntString(argv.start_time)
           THEN Exit(1)                     \* int(arg): ValueError
           ELSE IF argv.end_time # None /\ ~IsIntString(argv.end_time)
             THEN Exit(1)                   \* int(arg): ValueError
             ELSE IF argv.help
               THEN Exit(0)                 \* usage(); sys.exit()
               ELSE IF argv.args = <<>>
                 THEN Exit(1)               \* args[0]: IndexError
                 ELSE pc' = "fio_main" /\ exitcode' = exitcode
    /\ fio_k' = 1
    /\ UNCHANGED <<script, argv, files, lines, df, fs, runs>>
    /\ UNCHANGED loadvars

\* lines 59-70: one iteration of the loop over log_files; parse_log returns None
\* for a file that is not there (lines 19-21), and main goes on to the next
FioPlotOne ==
    /\ pc = "fio_main"
    /\ fio_k <= Len(LogTypes)
    /\ LET prefix == argv.args[1]
           log_type == LogTypes[fio_k]
       IN  IF FioLogPath(prefix, log_type) \in files
             THEN fs' = fs \cup
                    {[name |-> FioFileName(prefix, argv.start_time, argv.end_time,
                                           log_type),
                      kind |-> log_type,
                      by |-> [dev |-> argv.dev, start_time |-> argv.start_time,
                              end_time |-> argv.end_time]]}
             ELSE fs' = fs
    /\ fio_k' = fio_k + 1
    /\ UNCHANGED <<script, argv, files, lines, pc, exitcode, df, runs>>
    /\ UNCHANGED loadvars

\* main returns (line 99) and the interpreter exits with status 0
FioDone ==
    /\ pc = "fio_main"
    /\ fio_k > Len(LogTypes)
    /\ Exit(0)
    /\ UNCHANGED <<script, argv, files, lines, df, fs, runs, fio_k>>
    /\ UNCHANGED loadvars

-----------------------------------------------------------------------------
(* Inputs *)

Logs(choices, n) == UNION {[1..k -> choices] : k \in 0..n}

Args(unknown, help, start_time, end_time, dev, omit_first, args) ==
    [unknown |-> unknown, help |-> help, start_time |-> start_time,
     end_time |-> end_time, dev |-> dev, omit_first |-> omit_first, args |-> args]

\* the run gets as far as opening the log
OpensLog(a, fl) ==
    ~a.unknown /\ ~a.help /\ a.args # <<>> /\ a.args[Len(a.args)] \in fl

LineChoices ==
    {DateLine("8"), DateLine("9"), HeaderWide, HeaderNarrow,
     DataWide(nvme0n1), DataWide(sda), DataNarrow(sda)}

FilterLineChoices ==
    {DateLine("8"), DateLine("9"), HeaderWide, DataWide(nvme0n1), DataWide(sda)}

RunLineChoices == {DataWide(nvme0n1), DataWide(sda)}

BoundChoices == {None, <<"0">>, <<"1">>, <<"2">>, TimeString("8"), TimeString("9")}

DevChoices == {None, <<"s", "d">>, <<"d", "a">>, nvme0n1}

RunBoundChoices == {None, <<"1">>, TimeString("8"), <<"x">>}

FioBoundChoices == {None, <<"0">>, <<"5">>, <<"x">>}

FioPaths == {FioLogPath(FioPrefix, LogTypes[k]) : k \in 1..Len(LogTypes)}

Start ==
    /\ pc = "main"
    /\ exitcode = -1
    /\ i = 1
    /\ seq = 0
    /\ column_names = None
    /\ timestamp = None
    /\ omit_factor = 0
    /\ data_list = <<>>
    /\ src = <<>>
    /\ df = <<>>
    /\ fs = {}
    /\ runs = 1
    /\ fio_k = 1

InitIostat ==
    /\ script = "iostat"
    /\ \E unknown \in BOOLEAN, help \in BOOLEAN, omit_first \in BOOLEAN,
          args \in {<<>>, <<LogPath>>} :
         argv = Args(unknown, help, None, None, None, omit_first, args)
    /\ files \in SUBSET {LogPath}
    /\ lines \in IF OpensLog(argv, files) THEN Logs(LineChoices, MaxLines) ELSE {<<>>}
    /\ Start

InitFio ==
    /\ script = "fio"
    /\ \E unknown \in BOOLEAN, help \in BOOLEAN, args \in {<<>>, <<FioPrefix>>},
          start_time \in FioBoundChoices, end_time \in FioBoundChoices :
         argv = Args(unknown, help, start_time, end_time, None, FALSE, args)
    /\ files \in SUBSET FioPaths
    /\ lines = <<>>
    /\ Start

Init == InitIostat \/ InitFio

\* runs that reach filter_data with every combination of bounds and device pattern
InitFilter ==
    /\ script = "iostat"
    /\ \E start_time \in BoundChoices, end_time \in BoundChoices, dev \in DevChoices :
         argv = Args(FALSE, FALSE, start_time, end_time, dev, FALSE, <<LogPath>>)
    /\ files = {LogPath}
    /\ \E tail \in Logs(FilterLineChoices, MaxFilterLines) : lines = <<HeaderWide>> \o tail
    /\ Start

\* one sampling block as iostat prints it: an optional date line, the header, and
\* one line per device
Blocks ==
    {date \o <<HeaderWide>> \o devs :
       date \in {<<>>, <<DateLine("8")>>},
       devs \in {<<>>, <<DataWide(nvme0n1)>>, <<DataWide(sda)>>,
                 <<DataWide(nvme0n1), DataWide(sda)>>,
                 <<DataWide(sda), DataWide(nvme0n1)>>}}

RECURSIVE BlockLogs(_)
BlockLogs(n) ==
    IF n = 0 THEN {<<>>}
    ELSE LET shorter == BlockLogs(n - 1) IN
           shorter \cup {l \o b : l \in shorter, b \in Blocks}

\* runs that filter by device pattern alone
InitDev ==
    /\ script = "iostat"
    /\ \E dev \in DevChoices :
         argv = Args(FALSE, FALSE, None, None, dev, FALSE, <<LogPath>>)
    /\ files = {LogPath}
    /\ lines \in BlockLogs(MaxBlocks)
    /\ Start

RunArgs ==
    {Args(FALSE, FALSE, start_time, end_time, dev, FALSE, <<LogPath>>) :
       start_time \in RunBoundChoices, end_time \in RunBoundChoices, dev \in DevChoices}

InitRuns ==
    /\ script = "iostat"
    /\ argv \in RunArgs
    /\ files = {LogPath}
    /\ \E tail \in Logs(RunLineChoices, MaxRunLines) : lines = <<HeaderWide>> \o tail
    /\ Start

\* the program is run again over the same log; the images saved so far stay on disk
Rerun ==
    /\ pc = "exit"
    /\ runs < MaxRuns
    /\ argv' \in RunArgs
    /\ pc' = "main"
    /\ exitcode' = -1
    /\ runs' = runs + 1
    /\ UNCHANGED <<script, files, lines, df, fs, fio_k>>
    /\ UNCHANGED loadvars

-----------------------------------------------------------------------------
(* Specifications *)

IostatNext ==
    \/ ParseArgs
    \/ LoadLine
    \/ LoadDone
    \/ Filter
    \/ PlotAwaits
    \/ PlotReqsz
    \/ PlotAqusz

FioNext ==
    \/ FioParseArgs
    \/ FioPlotOne
    \/ FioDone

Next == IostatNext \/ FioNext

Spec == Init /\ [][Next]_vars

SpecFilter == InitFilter /\ [][IostatNext]_vars

SpecDev == InitDev /\ [][IostatNext]_vars

RunsNext == IostatNext \/ Rerun

SpecRuns == InitRuns /\ [][RunsNext]_vars

-----------------------------------------------------------------------------
(* The log, read independently of load_data's variables *)

IsDataIdx(j) == ~IsDateLine(lines[j]) /\ ~IsHeaderLine(lines[j])

DateIdx == {j \in 1..Len(lines) : IsDateLine(lines[j])}

HeaderIdx == {j \in 1..Len(lines) : ~IsDateLine(lines[j]) /\ IsHeaderLine(lines[j])}

\* index of the first header line, 0 when the log has none
FirstHeader(H) == IF H = {} THEN 0 ELSE CHOOSE h \in H : \A g \in H : h <= g

\* index of the last date line before line j, 0 when there is none
LastDateBefore(j) ==
    LET D == {d \in 1..(j - 1) : IsDateLine(lines[d])} IN
      IF D = {} THEN 0 ELSE CHOOSE d \in D : \A e \in D : e <= d

\* number of header lines before line j: the sampling interval line j belongs to
HeadersBefore(j) ==
    Cardinality({h \in 1..(j - 1) : ~IsDateLine(lines[h]) /\ IsHeaderLine(lines[h])})

\* number of header lines between the last date line before line j and line j
HeaderRepeat(j) ==
    LET d == LastDateBefore(j) IN
      Cardinality({h \in (d + 1)..(j - 1) :
                     ~IsDateLine(lines[h]) /\ IsHeaderLine(lines[h])})

\* lines the loop of load_data has gone through
Processed == 1..(i - 1)

\* lines that have a record in data_list
Emitted == {src[k] : k \in DOMAIN src}

LoadFinished == script = "iostat" /\ pc # "main" /\ i > Len(lines)

\* N header lines with the same columns, each followed by a valid data line
WellFormedLog ==
    /\ HeaderIdx # {}
    /\ \A h, g \in HeaderIdx : lines[h] = lines[g]
    /\ \A h \in HeaderIdx :
         \E j \in (h + 1)..Len(lines) :
            /\ IsDataIdx(j)
            /\ Len(lines[j]) = Len(lines[h])
            /\ HeadersBefore(j) = HeadersBefore(h) + 1

-----------------------------------------------------------------------------
(* Claims about load_data *)

\* C2: for a log of N sampling intervals (N header lines with the same columns,
\* each followed by at least one valid data line) loaded without omit_first, the
\* records carry exactly the sequence numbers 1..N, in non-decreasing order, and
\* every valid data line of the k-th interval has a record with sequence number k.
C2_SeqPerInterval ==
    (LoadFinished /\ ~argv.omit_first /\ WellFormedLog) =>
       /\ {data_list[k].seq : k \in DOMAIN data_list} = 1..Cardinality(HeaderIdx)
       /\ \A k \in 1..(Len(data_list) - 1) : data_list[k].seq <= data_list[k + 1].seq
       /\ \A k \in DOMAIN data_list : data_list[k].seq = HeadersBefore(src[k])
       /\ \A j \in 1..Len(lines) :
            (IsDataIdx(j) /\ HeadersBefore(j) >= 1
               /\ Len(lines[j]) = Len(lines[FirstHeader(HeaderIdx)]))
            => \E k \in DOMAIN data_list :
                  src[k] = j /\ data_list[k].seq = HeadersBefore(j)

\* a loaded log of two intervals, the first of which reports two devices
C2_Witness ==
    /\ LoadFinished /\ ~argv.omit_first /\ WellFormedLog
    /\ Cardinality(HeaderIdx) = 2
    /\ \E k \in 1..(Len(data_list) - 2) :
         /\ data_list[k].seq = 1 /\ data_list[k + 1].seq = 1
         /\ data_list[k].data # data_list[k + 1].data
         /\ data_list[k + 2].seq = 2

\* C3: the active column list is the token list of the first header line and is
\* never replaced by a later header; a line that is neither a date line nor a
\* header has a record if and only if it comes after the first header, has as
\* many tokens as that header, and is not suppressed by omit_first; the record
\* holds the line's tokens.
C3_ActiveColumns ==
    LET first == FirstHeader({h \in HeaderIdx : h < i}) IN
      /\ column_names = (IF first = 0 THEN None ELSE lines[first])
      /\ \A j \in Processed :
           (j \in Emitted) <=>
              /\ IsDataIdx(j)
              /\ first # 0
              /\ first < j
              /\ Len(lines[j]) = Len(lines[first])
              /\ ~(argv.omit_first /\ HeaderRepeat(j) <= 1)
      /\ \A k \in DOMAIN data_list :
           /\ data_list[k].data = lines[src[k]]
           /\ Len(data_list[k].data) = Len(column_names)

\* after a second header of another width, a line as wide as the first header is
\* recorded and a line as wide as the second header is not
C3_Witness ==
    \E h, g, j, m \in Processed :
       /\ h = FirstHeader(HeaderIdx) /\ g \in HeaderIdx
       /\ h < g /\ g < j /\ g < m
       /\ Len(lines[g]) # Len(lines[h])
       /\ IsDataIdx(j) /\ Len(lines[j]) = Len(lines[h]) /\ j \in Emitted
       /\ IsDataIdx(m) /\ Len(lines[m]) = Len(lines[g]) /\ m \notin Emitted

\* C4: with omit_first, no data line read while the header-repeat counter (0 at
\* each date line, one more at each header) is at most 1 has a record, and a data
\* line read while it is 2 or more has one when its token count is valid.
C4_OmitFirst ==
    argv.omit_first =>
      \A j \in Processed :
         IsDataIdx(j) =>
            /\ (HeaderRepeat(j) <= 1 => j \notin Emitted)
            /\ (HeaderRepeat(j) >= 2 /\ Len(lines[j]) = Len(column_names)
                  => j \in Emitted)

\* after one date line, a valid data line of the first header cycle is dropped and
\* one of the second header cycle is recorded
C4_Witness ==
    /\ argv.omit_first
    /\ \E j, m \in Processed :
         /\ IsDataIdx(j) /\ IsDataIdx(m)
         /\ LastDateBefore(j) # 0 /\ LastDateBefore(j) = LastDateBefore(m)
         /\ HeaderRepeat(j) = 1 /\ Len(lines[j]) = Len(column_names)
         /\ j \notin Emitted
         /\ HeaderRepeat(m) = 2 /\ m \in Emitted

\* C10: every record carries the timestamp parsed from the last date line before
\* its data line, and a null timestamp when no date line precedes it.
C10_Timestamp ==
    \A k \in DOMAIN data_list :
       data_list[k].time =
          (IF LastDateBefore(src[k]) = 0 THEN None
           ELSE <<ParseDateLine(lines[LastDateBefore(src[k])])>>)

\* a record before any date line, and a record after two date lines with different
\* times
C10_Witness ==
    \E k, n \in DOMAIN data_list :
       /\ data_list[k].time = None
       /\ data_list[n].time # None
       /\ \E d \in DateIdx :
            /\ d < LastDateBefore(src[n])
            /\ ParseDateLine(lines[d]) # data_list[n].time[1]

-----------------------------------------------------------------------------
(* Claims about filter_data *)

\* filter_data has just returned to main
Filtered == script = "iostat" /\ pc = "plot_awaits"

\* the device name of a record: the first token of an iostat data line
RecDevice(r) == r.data[1]

\* pat matches at the start of name
MatchesAtStart(name, pat) == \E k \in 0..Len(name) : SubSeq(name, 1, k) = pat

\* the records among d that satisfy the bound given as string s, by its type
AfterStart(r, s) ==
    IF IsTimeString(s) THEN r.time # None /\ r.time[1] >= ParseTime(s)
    ELSE r.seq >= StrToInt(s)

BeforeEnd(r, s) ==
    IF IsTimeString(s) THEN r.time # None /\ r.time[1] <= ParseTime(s)
    ELSE r.seq <= StrToInt(s)

TwoBlockExample ==
    <<HeaderWide, DataWide(nvme0n1), DataWide(sda),
      HeaderWide, DataWide(nvme0n1), DataWide(sda)>>

\* C1: with integer strings a and b as start and end and no device pattern,
\* filter_data returns exactly the records with a <= seq <= b, 0 and empty ranges
\* included.
C1_IntRange ==
    (Filtered /\ argv.dev = None
       /\ IsIntString(argv.start_time) /\ IsIntString(argv.end_time))
    => LET InRange(r) == /\ StrToInt(argv.start_time) <= r.seq
                         /\ r.seq <= StrToInt(argv.end_time)
       IN  df = SelectSeq(data_list, InRange)

\* C7: with a device pattern and no bounds, filter_data keeps exactly the records
\* whose device name the pattern matches, in input order; on the log of two blocks
\* that each list nvme0n1 and sda, the pattern nvme0n1 gives two records, both of
\* nvme0n1, with seq 1 and 2.
C7_DevicePattern ==
    (Filtered /\ argv.dev # None /\ argv.start_time = None /\ argv.end_time = None)
    => LET Match(r) == MatchesAtStart(RecDevice(r), argv.dev) IN
         /\ df = SelectSeq(data_list, Match)
         /\ (lines = TwoBlockExample /\ argv.dev = nvme0n1) =>
               /\ Len(df) = 2
               /\ RecDevice(df[1]) = nvme0n1 /\ df[1].seq = 1
               /\ RecDevice(df[2]) = nvme0n1 /\ df[2].seq = 2

\* the example log filtered by nvme0n1
C7_Witness ==
    /\ Filtered
    /\ lines = TwoBlockExample
    /\ argv.dev = nvme0n1 /\ argv.start_time = None /\ argv.end_time = None
    /\ Len(data_list) = 4
    /\ Len(df) = 2

\* C8: load_data followed by filter_data without start, end and device pattern
\* returns the loaded records unchanged.
C8_NoFilterIdentity ==
    (Filtered /\ argv.start_time = None /\ argv.end_time = None /\ argv.dev = None)
    => df = data_list

\* an unfiltered frame of records of two intervals, with and without timestamp
C8_Witness ==
    /\ Filtered
    /\ argv.start_time = None /\ argv.end_time = None /\ argv.dev = None
    /\ df = data_list
    /\ \E k, n \in DOMAIN df :
         /\ df[k].seq # df[n].seq
         /\ df[k].time = None /\ df[n].time # None

\* C9: start and end are typed independently, a timestamp bound is compared with
\* the record's timestamp and an integer bound with its sequence number, and the
\* result is the intersection of what each supplied constraint selects.
C9_IndependentBounds ==
    (Filtered /\ ~BoundRaises(argv.start_time) /\ ~BoundRaises(argv.end_time))
    => LET Selected(r) ==
             /\ (argv.start_time # None => AfterStart(r, argv.start_time))
             /\ (argv.end_time # None => BeforeEnd(r, argv.end_time))
             /\ (argv.dev # None => MatchesAtStart(RecDevice(r), argv.dev))
       IN  df = SelectSeq(data_list, Selected)

-----------------------------------------------------------------------------
(* Claims about the programs as a whole *)

\* C5: two runs of one chart kind over the same log with different device filter,
\* start or end never save under the same file name.
C5_NoOverwrite ==
    \A f, g \in fs : (f.kind = g.kind /\ f.by # g.by) => f.name # g.name

\* the arguments are bad, or the input is missing, in the claim's sense
BadArguments ==
    \/ argv.unknown
    \/ argv.args = <<>>
    \/ /\ script = "fio"
       /\ \/ (argv.start_time # None /\ ~IsIntString(argv.start_time))
          \/ (argv.end_time # None /\ ~IsIntString(argv.end_time))

MissingInput ==
    /\ argv.args # <<>>
    /\ IF script = "iostat"
         THEN argv.args[Len(argv.args)] \notin files
         ELSE \A k \in 1..Len(LogTypes) : FioLogPath(argv.args[1], LogTypes[k]) \notin files

\* C6: each script ends with exit code 2 when its arguments are bad or its input
\* file does not exist, and with exit code 0 in every other run.
C6_ExitCodes ==
    pc = "exit" => exitcode = (IF BadArguments \/ MissingInput THEN 2 ELSE 0)

=============================================================================
